---------------------------- MODULE Spec2Model ----------------------------
(***************************************************************************)
(* The connection actor of the CloudSleep server (Sleeper, sleeper.cpp):   *)
(* admission (Start), the inbound loop (Reader), the outbound loop         *)
(* (Writer), Deliver and the teardown (Stop), for one accepted socket.     *)
(*                                                                         *)
(* The two loops are coroutines spawned on the socket's executor.  Two     *)
(* schedulings of that executor are modelled:                              *)
(*   serial = TRUE   one thread runs the executor: a handler runs from its *)
(*                   resumption to its next suspension without any other   *)
(*                   handler in between (sched names the running handler); *)
(*   serial = FALSE  a pool of workers runs it: the statements of          *)
(*                   different handlers interleave freely.                 *)
(* Each std container or asio call is one atomic step (m_write_msgs is     *)
(* declared in sleeper.h; its calls are taken as linearizable).  Stop() is *)
(* three steps: the test of m_is_stoped, its assignment, and the four      *)
(* teardown calls that follow it.                                          *)
(*                                                                         *)
(* Three smaller specifications share the module: SpecAlloc (concurrent    *)
(* calls of MakeSleeperId), SpecCodec (WheatCommandProgrammer::CutMessage  *)
(* and ::Parse of WheatCommand.cpp, applied to inputs drawn by the initial *)
(* state) and SpecInbound (the Reader's async_read_until over the bytes    *)
(* of the socket).  The variables of one part rest while another runs.     *)
(***************************************************************************)
EXTENDS Integers, Sequences, FiniteSets, TLC

VARIABLES
    serial,          \* TRUE: one executor thread; FALSE: a pool of workers
    sched,           \* serial only: the handler holding the thread, or "none"
    pc,              \* position of each task
    m_is_stoped,     \* Sleeper::m_is_stoped
    sockOpen,        \* m_sock.is_open()
    observer,        \* the violation observer is registered under ("ip", ip)
    blacklisted,     \* BlackList holds this actor's ip
    room,            \* the Room's view of this connection: member, bed
    joinOk,          \* Room.Join: "none" before the call, then "admitted" or "refused"
    m_name, m_sex, m_pos, m_bed_id,
    last,            \* the latest inbound iteration: raw frame and its Room calls
    hist,            \* history: what the peer's frames have established so far
    dispatched,      \* number of inbound frames dispatched
    m_write_msgs,    \* the outbound queue
    delivered,       \* history: the frames enqueued by Deliver, in order
    written,         \* the frames written to the socket in full, in order
    count,           \* how often each teardown effect and collaborator call ran
    \* MakeSleeperId
    global_sleeper_id,   \* the static atomic counter
    idpc,                \* position of each caller of MakeSleeperId
    idgot,               \* the value each caller's post-increment yielded
    idbefore,            \* history: the ids returned before the caller's call began
    \* WheatCommandProgrammer
    cpc,             \* "input", then "cut" or "parsed"
    cbuf,            \* the input text, a sequence of characters
    cdelim,          \* CutMessage: delimiterChar
    cpieces,         \* CutMessage: pieces
    cfields,         \* CutMessage: the returned vector
    cres,            \* Parse: the returned WheatCommand, or what became of the call
    \* the bytes of the socket under the Reader
    rpc,             \* "read": async_read_until pending; "have": it completed
    rx,              \* bytes the peer sent that no read has taken yet
    rbuf,            \* std::string buffer of the current iteration
    sent,            \* history: the frames the peer sent, in order
    handled          \* history: the messages the loop dispatched, in order

sleeperVars == <<serial, sched, pc, m_is_stoped, sockOpen, observer, blacklisted, room, joinOk,
          m_name, m_sex, m_pos, m_bed_id, last, hist, dispatched,
          m_write_msgs, delivered, written, count>>

allocVars == <<global_sleeper_id, idpc, idgot, idbefore>>
codecVars == <<cpc, cbuf, cdelim, cpieces, cfields, cres>>
streamVars == <<rpc, rx, rbuf, sent, handled>>
restVars == <<allocVars, codecVars, streamVars>>

vars == <<sleeperVars, restVars>>

actorVars == <<m_name, m_sex, m_pos, m_bed_id>>
inboundVars == <<last, hist, dispatched>>
outboundVars == <<m_write_msgs, delivered, written>>

---------------------------------------------------------------------------
(* Bounds of the model *)

\* inbound frames dispatched, one executor thread
MaxFrames == 3
\* inbound frames dispatched, pool of workers
MaxFramesPool == 1
\* calls of Deliver
MaxDeliver == 2
\* invocations of the violation callback
MaxViolations == 1
\* concurrent callers of MakeSleeperId
MaxCallers == 3
\* characters that follow the leading word of a text handed to the parser
MaxLen == 4
\* largest `pieces` handed to CutMessage
MaxPieces == 3
\* frames the peer sends on the socket
MaxSent == 3

(* Program constants *)

\* m_bed_id of a connection that is not sleeping
NoBed == -1
\* the first id MakeSleeperId issues
FirstSleeperId == 10000
\* CutMessage's `pieces` where the caller passes none
DefaultPieces == 0
\* the maximum size of the Reader's dynamic buffer
MaxBufferSize == 4096

m_id == FirstSleeperId

Tasks == {"start", "reader", "writer", "violation", "deliver"}
StopCallers == {"start", "reader", "writer", "violation"}

\* the k-th frame the Room hands to Deliver
OutFrame(k) == k

---------------------------------------------------------------------------
(* Commands and frames *)

CmdSleeper(id) == [type |-> "sleeper", n |-> id, s |-> "", p |-> <<0, 0>>]
CmdName(name) == [type |-> "name", n |-> 0, s |-> name, p |-> <<0, 0>>]
CmdType(sex) == [type |-> "type", n |-> sex, s |-> "", p |-> <<0, 0>>]
CmdSleep(bed) == [type |-> "sleep", n |-> bed, s |-> "", p |-> <<0, 0>>]
CmdGetup == [type |-> "getup", n |-> 0, s |-> "", p |-> <<0, 0>>]
CmdChat(msg) == [type |-> "chat", n |-> 0, s |-> msg, p |-> <<0, 0>>]
CmdPos(pos) == [type |-> "pos", n |-> 0, s |-> "", p |-> pos]
CmdMove(pos) == [type |-> "move", n |-> 0, s |-> "", p |-> pos]
CmdVoteKickStart(id) == [type |-> "kick", n |-> id, s |-> "", p |-> <<0, 0>>]
CmdVoteAgree == [type |-> "agree", n |-> 0, s |-> "", p |-> <<0, 0>>]
CmdVoteRefuse == [type |-> "refuse", n |-> 0, s |-> "", p |-> <<0, 0>>]
CmdUnknown == [type |-> "unknown", n |-> 0, s |-> "", p |-> <<0, 0>>]

\* the inbound frames the peer sends (without the terminating NUL)
Frames == {"name$Zed", "type$1", "sleep$5", "sleep$7", "getup$", "chat$hi",
           "pos$1,1", "move$1,1", "kick$10001", "agree$", "refuse$", "getup",
           "sleep$x"}

\* the frames ParseCommand throws a std::exception for
ParseThrows(raw) == raw = "sleep$x"

ParseCommand(raw) ==
    CASE raw = "name$Zed" -> CmdName("Zed")
      [] raw = "type$1" -> CmdType(1)
      [] raw = "sleep$5" -> CmdSleep(5)
      [] raw = "sleep$7" -> CmdSleep(7)
      [] raw = "getup$" -> CmdGetup
      [] raw = "chat$hi" -> CmdChat("hi")
      [] raw = "pos$1,1" -> CmdPos(<<1, 1>>)
      [] raw = "move$1,1" -> CmdMove(<<1, 1>>)
      [] raw = "kick$10001" -> CmdVoteKickStart(10001)
      [] raw = "agree$" -> CmdVoteAgree
      [] raw = "refuse$" -> CmdVoteRefuse
      [] OTHER -> CmdUnknown

PackCommandWithId(id, cmd) == [id |-> id, cmd |-> cmd]

\* a faulty snapshot: it always ends with the position entry
MakeSelfInfo_AlwaysPos ==
    <<PackCommandWithId(m_id, CmdSleeper(m_id)),
      PackCommandWithId(m_id, CmdName(m_name)),
      PackCommandWithId(m_id, CmdType(m_sex)),
      PackCommandWithId(m_id, CmdPos(m_pos))>>

\* the self-introduction snapshot, as the sequence of its packed commands
MakeSelfInfo ==
    <<PackCommandWithId(m_id, CmdSleeper(m_id)),
      PackCommandWithId(m_id, CmdName(m_name)),
      PackCommandWithId(m_id, CmdType(m_sex)),
      IF m_bed_id # NoBed
          THEN PackCommandWithId(m_id, CmdSleep(m_bed_id))
          ELSE PackCommandWithId(m_id, CmdPos(m_pos))>>

---------------------------------------------------------------------------
(* The Room, as this connection sees it *)

RoomCall(op, n, raw, ok) == [op |-> op, id |-> m_id, n |-> n, raw |-> raw, ok |-> ok]

\* the Room's bed occupancy for this connection after a call
RoomBedAfter(bed, call) ==
    CASE call.op = "Sleep" /\ call.ok -> call.n
      [] call.op = "GetUp" -> NoBed
      [] call.op = "Leave" -> NoBed
      [] OTHER -> bed

RECURSIVE RoomBedAfterAll(_, _)
RoomBedAfterAll(bed, calls) ==
    IF calls = <<>> THEN bed
    ELSE RoomBedAfterAll(RoomBedAfter(bed, Head(calls)), Tail(calls))

---------------------------------------------------------------------------
(* Scheduling *)

CanRun(t) == ~serial \/ sched \in {"none", t}
Idle == ~serial \/ sched = "none"
\* the handler goes on to its next statement
Keep(t) == IF serial THEN t ELSE "none"

InitCommon ==
    /\ sched = "none"
    /\ pc = [t \in Tasks |-> CASE t = "start" -> "register"
                               [] t = "reader" -> "off"
                               [] t = "writer" -> "off"
                               [] OTHER -> "idle"]
    /\ m_is_stoped = FALSE
    /\ sockOpen = TRUE
    /\ observer = FALSE
    /\ blacklisted = FALSE
    /\ room = [member |-> FALSE, bed |-> NoBed]
    /\ joinOk = "none"
    /\ m_name = ""
    /\ m_sex = 0
    /\ m_pos = <<0, 0>>
    /\ m_bed_id = NoBed
    /\ last = [raw |-> "", calls |-> <<>>, threw |-> FALSE]
    /\ hist = [name |-> "", sex |-> 0, pos |-> <<0, 0>>, bed |-> NoBed]
    /\ dispatched = 0
    /\ m_write_msgs = <<>>
    /\ delivered = <<>>
    /\ written = <<>>
    /\ count = [connection |-> 0, leave |-> 0, close |-> 0, cancel |-> 0,
                trafficClose |-> 0, violation |-> 0, addObserver |-> 0]


FrameBudget == IF serial THEN MaxFrames ELSE MaxFramesPool

---------------------------------------------------------------------------
(* Sleeper::Start *)

StartRegister ==
    /\ pc["start"] = "register"
    /\ CanRun("start")
    /\ count' = [count EXCEPT !.connection = @ + 1, !.addObserver = @ + 1]
    /\ observer' = TRUE
    /\ pc' = [pc EXCEPT !["start"] = "join"]
    /\ sched' = Keep("start")
    /\ UNCHANGED <<restVars, serial, m_is_stoped, sockOpen, blacklisted, room, joinOk,
                   actorVars, inboundVars, outboundVars>>

\* a faulty Start(): the two loops are spawned whatever Room.Join answers
StartJoin_SpawnsAnyway ==
    /\ pc["start"] = "join"
    /\ CanRun("start")
    /\ \E ok \in BOOLEAN :
          /\ joinOk' = IF ok THEN "admitted" ELSE "refused"
          /\ room' = [room EXCEPT !.member = ok]
          /\ pc' = [pc EXCEPT !["start"] = IF ok THEN "done" ELSE "stop",
                              !["reader"] = "read", !["writer"] = "top"]
          /\ sched' = IF ok THEN "none" ELSE Keep("start")
    /\ UNCHANGED <<restVars, serial, m_is_stoped, sockOpen, observer, blacklisted, count,
                   actorVars, inboundVars, outboundVars>>

\* if (!m_room.Join(m_id, shared_from_this())) Stop(); else spawn both loops
StartJoin ==
    /\ pc["start"] = "join"
    /\ CanRun("start")
    /\ \E ok \in BOOLEAN :
          /\ joinOk' = IF ok THEN "admitted" ELSE "refused"
          /\ room' = [room EXCEPT !.member = ok]
          /\ IF ok
                THEN /\ pc' = [pc EXCEPT !["start"] = "done", !["reader"] = "read",
                                         !["writer"] = "top"]
                     /\ sched' = "none"
                ELSE /\ pc' = [pc EXCEPT !["start"] = "stop"]
                     /\ sched' = Keep("start")
    /\ UNCHANGED <<restVars, serial, m_is_stoped, sockOpen, observer, blacklisted, count,
                   actorVars, inboundVars, outboundVars>>

---------------------------------------------------------------------------
(* Sleeper::Stop, called by task t *)

AfterStop(t) == IF t = "violation" THEN "idle" ELSE "done"

\* a faulty Stop(): the test of m_is_stoped is missing
StopCheck_NoTest(t) ==
    /\ pc[t] = "stop"
    /\ CanRun(t)
    /\ pc' = [pc EXCEPT ![t] = "stop_set"]
    /\ sched' = Keep(t)
    /\ UNCHANGED <<restVars, serial, m_is_stoped, sockOpen, observer, blacklisted, room, joinOk,
                   count, actorVars, inboundVars, outboundVars>>

\* if (m_is_stoped) return;
StopCheck(t) ==
    /\ pc[t] = "stop"
    /\ CanRun(t)
    /\ IF m_is_stoped
          THEN /\ pc' = [pc EXCEPT ![t] = AfterStop(t)]
               /\ sched' = "none"
          ELSE /\ pc' = [pc EXCEPT ![t] = "stop_set"]
               /\ sched' = Keep(t)
    /\ UNCHANGED <<restVars, serial, m_is_stoped, sockOpen, observer, blacklisted, room, joinOk,
                   count, actorVars, inboundVars, outboundVars>>

StopSet(t) ==
    /\ pc[t] = "stop_set"
    /\ CanRun(t)
    /\ m_is_stoped' = TRUE
    /\ pc' = [pc EXCEPT ![t] = "stop_effects"]
    /\ sched' = Keep(t)
    /\ UNCHANGED <<restVars, serial, sockOpen, observer, blacklisted, room, joinOk,
                   count, actorVars, inboundVars, outboundVars>>

\* m_room.Leave(m_id); m_sock.close(); m_timer.cancel(), which completes the
\* pending wait if the Writer has one; OnConnectionClose(m_ip)
StopEffects(t) ==
    /\ pc[t] = "stop_effects"
    /\ CanRun(t)
    /\ room' = [member |-> FALSE,
                bed |-> RoomBedAfter(room.bed, RoomCall("Leave", 0, "", TRUE))]
    /\ sockOpen' = FALSE
    /\ count' = [count EXCEPT !.leave = @ + 1, !.close = @ + 1, !.cancel = @ + 1,
                              !.trafficClose = @ + 1]
    /\ pc' = [pc EXCEPT ![t] = AfterStop(t),
                        !["writer"] = IF @ = "wait" THEN "top" ELSE @]
    /\ sched' = "none"
    /\ UNCHANGED <<restVars, serial, m_is_stoped, observer, blacklisted, joinOk,
                   actorVars, inboundVars, outboundVars>>

---------------------------------------------------------------------------
(* Sleeper::Reader *)

\* what a handler of the visit leaves: the actor's fields, the relay decision
\* and the Room calls it made
NoEffect ==
    [name |-> m_name, sex |-> m_sex, pos |-> m_pos, bed |-> m_bed_id,
     forward |-> TRUE, calls |-> <<>>]

\* a faulty handler: the bed is adopted and the frame relayed whatever the
\* Room answers
OnCmdSleep_IgnoresAnswer(cmd, ok) ==
    [NoEffect EXCEPT !.bed = cmd.n,
                     !.calls = <<RoomCall("Sleep", cmd.n, "", ok)>>]

OnCmdSleep(cmd, ok) ==
    [NoEffect EXCEPT !.bed = IF ok THEN cmd.n ELSE @,
                     !.forward = ok,
                     !.calls = <<RoomCall("Sleep", cmd.n, "", ok)>>]

OnCmdGetup(cmd) ==
    [NoEffect EXCEPT !.calls = <<RoomCall("GetUp", 0, "", TRUE)>>]

OnCmdName(cmd) == [NoEffect EXCEPT !.name = cmd.s]

OnCmdType(cmd) == [NoEffect EXCEPT !.sex = cmd.n]

OnCmdChat(cmd) == NoEffect

OnCmdPos(cmd) == [NoEffect EXCEPT !.pos = cmd.p]

OnCmdMove(cmd) == [NoEffect EXCEPT !.pos = cmd.p]

OnCmdVoteKickStart(cmd) ==
    [NoEffect EXCEPT !.calls = <<[RoomCall("VoteKickStart", cmd.n, "", TRUE)
                                     EXCEPT !.id = cmd.n]>>]

\* a faulty handler: the vote is registered and the frame relayed as well
OnCmdVoteAgree_Relayed(cmd) ==
    [NoEffect EXCEPT !.calls = <<RoomCall("Agree", 0, "", TRUE)>>]

OnCmdVoteAgree(cmd) ==
    [NoEffect EXCEPT !.forward = FALSE,
                     !.calls = <<RoomCall("Agree", 0, "", TRUE)>>]

OnCmdVoteRefuse(cmd) ==
    [NoEffect EXCEPT !.forward = FALSE,
                     !.calls = <<RoomCall("Refuse", 0, "", TRUE)>>]

\* std::visit over the parsed command; ok is the Room's answer to Sleep
Visit(cmd, ok) ==
    CASE cmd.type = "sleep" -> OnCmdSleep(cmd, ok)
      [] cmd.type = "getup" -> OnCmdGetup(cmd)
      [] cmd.type = "name" -> OnCmdName(cmd)
      [] cmd.type = "type" -> OnCmdType(cmd)
      [] cmd.type = "chat" -> OnCmdChat(cmd)
      [] cmd.type = "pos" -> OnCmdPos(cmd)
      [] cmd.type = "move" -> OnCmdMove(cmd)
      [] cmd.type = "kick" -> OnCmdVoteKickStart(cmd)
      [] cmd.type = "agree" -> OnCmdVoteAgree(cmd)
      [] cmd.type = "refuse" -> OnCmdVoteRefuse(cmd)
      [] OTHER -> NoEffect

\* a faulty relay: the raw frame is never handed to the Room
Relay_Never(eff, raw) == <<>>

\* if (forward) m_room.Deliver(m_id, msg)
Relay(eff, raw) ==
    IF eff.forward THEN <<RoomCall("Deliver", 0, raw, TRUE)>> ELSE <<>>

\* the answers the Room can give to the frame's Sleep request
RoomAnswers(cmd) == IF cmd.type = "sleep" THEN BOOLEAN ELSE {TRUE}

\* what the peer's frames have established: the last name, type and position
\* sent, and the last bed the Room granted
HistAfter(cmd, ok) ==
    CASE cmd.type = "name" -> [hist EXCEPT !.name = cmd.s]
      [] cmd.type = "type" -> [hist EXCEPT !.sex = cmd.n]
      [] cmd.type \in {"pos", "move"} -> [hist EXCEPT !.pos = cmd.p]
      [] cmd.type = "sleep" /\ ok -> [hist EXCEPT !.bed = cmd.n]
      [] OTHER -> hist

\* the socket delivers one complete frame to the pending async_read_until
\* (nothing looks at the frame before the continuation runs: ReaderDispatch
\* draws it)
ReadComplete ==
    /\ pc["reader"] = "read"
    /\ Idle
    /\ sockOpen
    /\ dispatched < FrameBudget
    /\ pc' = [pc EXCEPT !["reader"] = "ready"]
    /\ UNCHANGED <<restVars, serial, sched, m_is_stoped, sockOpen, observer, blacklisted, room,
                   joinOk, count, actorVars, inboundVars, outboundVars>>

\* the peer ends the connection: the pending read fails
ReadFail ==
    /\ pc["reader"] = "read"
    /\ Idle
    /\ sockOpen
    /\ pc' = [pc EXCEPT !["reader"] = "stop"]
    /\ UNCHANGED <<restVars, serial, sched, m_is_stoped, sockOpen, observer, blacklisted, room,
                   joinOk, count, actorVars, inboundVars, outboundVars>>

\* the socket was closed by Stop: the pending read fails
ReadAborted ==
    /\ pc["reader"] = "read"
    /\ Idle
    /\ ~sockOpen
    /\ pc' = [pc EXCEPT !["reader"] = "stop"]
    /\ UNCHANGED <<restVars, serial, sched, m_is_stoped, sockOpen, observer, blacklisted, room,
                   joinOk, count, actorVars, inboundVars, outboundVars>>

\* a faulty handler of the frame's exception: the actor is stopped
AfterFrameError_Stops == "stop"

\* catch (const std::exception&) inside the loop (lines 141-144): the error
\* is logged and the loop goes on to its next read
AfterFrameError == "read"

\* one iteration of the loop after the read: parse, visit, relay, read again;
\* an exception of ParseCommand ends the iteration at the inner catch
ReaderDispatch ==
    /\ pc["reader"] = "ready"
    /\ CanRun("reader")
    /\ \E buffer \in Frames :
       IF ParseThrows(buffer)
       THEN /\ last' = [raw |-> buffer, calls |-> <<>>, threw |-> TRUE]
            /\ pc' = [pc EXCEPT !["reader"] = AfterFrameError]
            /\ UNCHANGED <<actorVars, room, hist>>
       ELSE LET cmd == ParseCommand(buffer) IN
            \E ok \in RoomAnswers(cmd) :
               LET eff == Visit(cmd, ok)
                   calls == eff.calls \o Relay(eff, buffer) IN
               /\ m_name' = eff.name
               /\ m_sex' = eff.sex
               /\ m_pos' = eff.pos
               /\ m_bed_id' = eff.bed
               /\ last' = [raw |-> buffer, calls |-> calls, threw |-> FALSE]
               /\ room' = [room EXCEPT !.bed = RoomBedAfterAll(@, calls)]
               /\ hist' = HistAfter(cmd, ok)
               /\ pc' = [pc EXCEPT !["reader"] = "read"]
    /\ dispatched' = dispatched + 1
    /\ sched' = "none"
    /\ UNCHANGED <<restVars, serial, m_is_stoped, sockOpen, observer, blacklisted, joinOk,
                   count, outboundVars>>

---------------------------------------------------------------------------
(* Sleeper::Writer *)

\* while (m_sock.is_open())
WriterTop ==
    /\ pc["writer"] = "top"
    /\ CanRun("writer")
    /\ IF sockOpen
          THEN /\ pc' = [pc EXCEPT !["writer"] = "check"]
               /\ sched' = Keep("writer")
          ELSE /\ pc' = [pc EXCEPT !["writer"] = "done"]
               /\ sched' = "none"
    /\ UNCHANGED <<restVars, serial, m_is_stoped, sockOpen, observer, blacklisted, room, joinOk,
                   count, actorVars, inboundVars, outboundVars>>

\* if (m_write_msgs.empty()) ... else co_await async_write(front)
WriterCheck ==
    /\ pc["writer"] = "check"
    /\ CanRun("writer")
    /\ IF m_write_msgs = <<>>
          THEN /\ pc' = [pc EXCEPT !["writer"] = "arm"]
               /\ sched' = Keep("writer")
          ELSE /\ pc' = [pc EXCEPT !["writer"] = "write"]
               /\ sched' = "none"
    /\ UNCHANGED <<restVars, serial, m_is_stoped, sockOpen, observer, blacklisted, room, joinOk,
                   count, actorVars, inboundVars, outboundVars>>

\* co_await m_timer.async_wait(...): the wait is pending from here on
WriterArm ==
    /\ pc["writer"] = "arm"
    /\ CanRun("writer")
    /\ pc' = [pc EXCEPT !["writer"] = "wait"]
    /\ sched' = "none"
    /\ UNCHANGED <<restVars, serial, m_is_stoped, sockOpen, observer, blacklisted, room, joinOk,
                   count, actorVars, inboundVars, outboundVars>>

\* the socket takes the front frame in full
WriteComplete ==
    /\ pc["writer"] = "write"
    /\ Idle
    /\ sockOpen
    /\ written' = Append(written, Head(m_write_msgs))
    /\ pc' = [pc EXCEPT !["writer"] = "pop"]
    /\ UNCHANGED <<restVars, serial, sched, m_is_stoped, sockOpen, observer, blacklisted, room,
                   joinOk, count, actorVars, inboundVars, m_write_msgs, delivered>>

\* the peer ends the connection: the pending write fails
WriteFail ==
    /\ pc["writer"] = "write"
    /\ Idle
    /\ sockOpen
    /\ pc' = [pc EXCEPT !["writer"] = "stop"]
    /\ UNCHANGED <<restVars, serial, sched, m_is_stoped, sockOpen, observer, blacklisted, room,
                   joinOk, count, actorVars, inboundVars, outboundVars>>

\* the socket was closed by Stop: the write fails
WriteAborted ==
    /\ pc["writer"] = "write"
    /\ Idle
    /\ ~sockOpen
    /\ pc' = [pc EXCEPT !["writer"] = "stop"]
    /\ UNCHANGED <<restVars, serial, sched, m_is_stoped, sockOpen, observer, blacklisted, room,
                   joinOk, count, actorVars, inboundVars, outboundVars>>

\* m_write_msgs.pop_front(), then back to the loop's test
WriterPop ==
    /\ pc["writer"] = "pop"
    /\ CanRun("writer")
    /\ m_write_msgs' = Tail(m_write_msgs)
    /\ pc' = [pc EXCEPT !["writer"] = "top"]
    /\ sched' = Keep("writer")
    /\ UNCHANGED <<restVars, serial, m_is_stoped, sockOpen, observer, blacklisted, room, joinOk,
                   count, actorVars, inboundVars, delivered, written>>

---------------------------------------------------------------------------
(* Sleeper::Deliver, called by the Room's fan-out *)

\* a faulty enqueue: the frame is put at the front of the queue
Enqueue_AtFront(q, msg) == <<msg>> \o q

Enqueue(q, msg) == Append(q, msg)

\* m_write_msgs.emplace_back(std::move(msg))
DeliverPush ==
    /\ pc["deliver"] = "idle"
    /\ CanRun("deliver")
    /\ room.member
    /\ Len(delivered) < MaxDeliver
    /\ LET msg == OutFrame(Len(delivered) + 1) IN
          /\ m_write_msgs' = Enqueue(m_write_msgs, msg)
          /\ delivered' = Append(delivered, msg)
    /\ pc' = [pc EXCEPT !["deliver"] = "cancel_one"]
    /\ sched' = Keep("deliver")
    /\ UNCHANGED <<restVars, serial, m_is_stoped, sockOpen, observer, blacklisted, room, joinOk,
                   count, actorVars, inboundVars, written>>

\* m_timer.cancel_one(): completes the pending wait, if the Writer has one
DeliverCancelOne ==
    /\ pc["deliver"] = "cancel_one"
    /\ CanRun("deliver")
    /\ pc' = [pc EXCEPT !["deliver"] = "idle",
                        !["writer"] = IF @ = "wait" THEN "top" ELSE @]
    /\ sched' = "none"
    /\ UNCHANGED <<restVars, serial, m_is_stoped, sockOpen, observer, blacklisted, room, joinOk,
                   count, actorVars, inboundVars, outboundVars>>

---------------------------------------------------------------------------
(* The violation observer registered by Start *)

\* a faulty callback: the ip is not put on the blacklist
OnViolation_NoBlacklist ==
    /\ pc["violation"] = "idle"
    /\ Idle
    /\ observer
    /\ count.violation < MaxViolations
    /\ count' = [count EXCEPT !.violation = @ + 1]
    /\ pc' = [pc EXCEPT !["violation"] = "stop"]
    /\ sched' = Keep("violation")
    /\ UNCHANGED <<restVars, serial, m_is_stoped, sockOpen, observer, blacklisted, room,
                   joinOk, actorVars, inboundVars, outboundVars>>

\* the detector invokes the callback: blacklist the ip, then Stop()
OnViolation ==
    /\ pc["violation"] = "idle"
    /\ Idle
    /\ observer
    /\ count.violation < MaxViolations
    /\ blacklisted' = TRUE
    /\ count' = [count EXCEPT !.violation = @ + 1]
    /\ pc' = [pc EXCEPT !["violation"] = "stop"]
    /\ sched' = Keep("violation")
    /\ UNCHANGED <<restVars, serial, m_is_stoped, sockOpen, observer, room, joinOk,
                   actorVars, inboundVars, outboundVars>>

---------------------------------------------------------------------------
(* MakeSleeperId: concurrent callers (the constructors of new actors) *)

Callers == 1..MaxCallers

AllocInit ==
    /\ global_sleeper_id = FirstSleeperId
    /\ idpc = [c \in Callers |-> "idle"]
    /\ idgot = [c \in Callers |-> 0]
    /\ idbefore = [c \in Callers |-> {}]

\* the ids of the calls that have returned
IdsReturned == {idgot[c] : c \in {d \in Callers : idpc[d] = "returned"}}

\* a faulty counter: the incremented value is not stored
PostIncrement_NoStore(v) == [ret |-> v, next |-> v]

\* global_sleeper_id++ on the std::atomic: one atomic fetch-and-add
PostIncrement(v) == [ret |-> v, next |-> v + 1]

\* a thread enters MakeSleeperId
IdCall(c) ==
    /\ idpc[c] = "idle"
    /\ idpc' = [idpc EXCEPT ![c] = "called"]
    /\ idbefore' = [idbefore EXCEPT ![c] = IdsReturned]
    /\ UNCHANGED <<sleeperVars, codecVars, streamVars, global_sleeper_id, idgot>>

IdFetchAdd(c) ==
    /\ idpc[c] = "called"
    /\ idgot' = [idgot EXCEPT ![c] = PostIncrement(global_sleeper_id).ret]
    /\ global_sleeper_id' = PostIncrement(global_sleeper_id).next
    /\ idpc' = [idpc EXCEPT ![c] = "fetched"]
    /\ UNCHANGED <<sleeperVars, codecVars, streamVars, idbefore>>

IdReturn(c) ==
    /\ idpc[c] = "fetched"
    /\ idpc' = [idpc EXCEPT ![c] = "returned"]
    /\ UNCHANGED <<sleeperVars, codecVars, streamVars, global_sleeper_id, idgot, idbefore>>

---------------------------------------------------------------------------
(* WheatCommandProgrammer (WheatCommand.cpp).  A text is the sequence of   *)
(* its characters.                                                         *)

Name_s == <<"n", "a", "m", "e">>
Type_s == <<"t", "y", "p", "e">>
Sleep_s == <<"s", "l", "e", "e", "p">>
Getup_s == <<"g", "e", "t", "u", "p">>
Chat_s == <<"c", "h", "a", "t">>
Move_s == <<"m", "o", "v", "e">>
Pos_s == <<"p", "o", "s">>

Digits == {"0", "1", "2", "3", "4", "5", "6", "7", "8", "9"}
DigitValue(ch) ==
    CASE ch = "0" -> 0 [] ch = "1" -> 1 [] ch = "2" -> 2 [] ch = "3" -> 3
      [] ch = "4" -> 4 [] ch = "5" -> 5 [] ch = "6" -> 6 [] ch = "7" -> 7
      [] ch = "8" -> 8 [] ch = "9" -> 9

RECURSIVE AtoiDigits(_, _)
AtoiDigits(str, acc) ==
    IF str = <<>> \/ Head(str) \notin Digits THEN acc
    ELSE AtoiDigits(Tail(str), acc * 10 + DigitValue(Head(str)))

RECURSIVE Atoi(_)
\* atoi: blanks, an optional sign, then digits up to the first other character
\* (the texts of the model are too short to overflow an int)
Atoi(str) ==
    CASE str = <<>> -> 0
      [] str # <<>> /\ Head(str) = " " -> Atoi(Tail(str))
      [] str # <<>> /\ Head(str) = "-" -> 0 - AtoiDigits(Tail(str), 0)
      [] str # <<>> /\ Head(str) = "+" -> AtoiDigits(Tail(str), 0)
      [] OTHER -> AtoiDigits(str, 0)

\* strTemp.substr(l, r - l)
Substr(str, l, n) == SubSeq(str, l + 1, l + n)

\* a faulty last field: it ends at the delimiter found, like the fields before it
RestField_UpToDelimiter(str, l, r) == Substr(str, l, r - l)

\* strTemp.substr(l): everything from l on
RestField(str, l, r) == SubSeq(str, l + 1, Len(str))

RECURSIVE CutLoop(_, _, _, _, _, _)
\* the for loop of CutMessage, from index r on: l is the start of the current
\* field, remainKnives the cuts left, res the vector so far
CutLoop(buf, delimiterChar, r, l, remainKnives, res) ==
    IF r > Len(buf) THEN res
    ELSE IF r = Len(buf) \/ buf[r + 1] = delimiterChar
         THEN IF remainKnives = 0
                 THEN Append(res, RestField(buf, l, r))
                 ELSE CutLoop(buf, delimiterChar, r + 1, r + 1, remainKnives - 1,
                              Append(res, Substr(buf, l, r - l)))
         ELSE CutLoop(buf, delimiterChar, r + 1, l, remainKnives, res)

CutMessage(buf, delimiterChar, pieces) ==
    IF pieces = 1 THEN <<buf>>
    ELSE CutLoop(buf, delimiterChar, 0, 0, pieces - 1, <<>>)

GetCommandTypeFromString(str) ==
    CASE str = Name_s -> "name"
      [] str = Type_s -> "type"
      [] str = Sleep_s -> "sleep"
      [] str = Getup_s -> "getup"
      [] str = Chat_s -> "chat"
      [] str = Move_s -> "move"
      [] str = Pos_s -> "pos"
      [] OTHER -> "unknown"

\* a WheatCommand as Parse returns it (a field Parse does not assign shows as
\* 0 or as the empty text); oob: the call read an element of a vector past
\* its end; type "crash": the call did not return
WheatCommand(type, n0, n1, str, oob) ==
    [type |-> type, nParam |-> <<n0, n1>>, strParam |-> str, oob |-> oob]

\* what a read past the end of the vector can yield for atoi's argument
GarbageInts == {0, 7}

\* vecPosCutTemp[index] with index = vecPosCutTemp.size(): undefined
\* behaviour; the call crashes, or goes on with whatever the read yields
BeyondVector(type, n0) ==
    {WheatCommand("crash", 0, 0, <<>>, TRUE)}
        \cup {WheatCommand(type, n0, g, <<>>, TRUE) : g \in GarbageInts}

\* case move/pos of Parse
ParsePos(type, param) ==
    LET vecPosCutTemp == CutMessage(param, ",", DefaultPieces) IN
    IF Len(vecPosCutTemp) >= 2
        THEN {WheatCommand(type, Atoi(vecPosCutTemp[1]), Atoi(vecPosCutTemp[2]),
                           <<>>, FALSE)}
        ELSE BeyondVector(type, Atoi(vecPosCutTemp[1]))

\* Parse(buf): the set of outcomes the call can have (one, where the
\* behaviour is defined)
Parse(buf) ==
    LET vecCuttedBuf == CutMessage(buf, "$", 2) IN
    IF Len(vecCuttedBuf) <= 1
        THEN {WheatCommand("unknown", 0, 0, <<>>, FALSE)}
        ELSE LET type == GetCommandTypeFromString(vecCuttedBuf[1])
                 param == vecCuttedBuf[2] IN
             CASE type \in {"name", "chat"} ->
                      {WheatCommand(type, 0, 0, param, FALSE)}
               [] type \in {"type", "sleep"} ->
                      {WheatCommand(type, Atoi(param), 0, <<>>, FALSE)}
               [] type \in {"move", "pos"} -> ParsePos(type, param)
               [] OTHER -> {WheatCommand(type, 0, 0, <<>>, FALSE)}

\* the texts handed to CutMessage and Parse: a token of the table, another
\* word or nothing, followed by up to MaxLen characters
Alphabet == {"$", ",", "1", "a"}
Tails == UNION {[1..n -> Alphabet] : n \in 0..MaxLen}
Words == {<<>>, Name_s, Type_s, Sleep_s, Getup_s, Chat_s, Move_s, Pos_s,
          <<"n", "a", "p">>}
CodecInputs == {w \o t : w \in Words, t \in Tails}

NoCommand == WheatCommand("none", 0, 0, <<>>, FALSE)

CodecOff ==
    /\ cpc = "off"
    /\ cbuf = <<>>
    /\ cdelim = "$"
    /\ cpieces = 0
    /\ cfields = <<>>
    /\ cres = NoCommand

CodecInit ==
    /\ cpc = "input"
    /\ cbuf \in CodecInputs
    /\ cdelim \in {"$", ","}
    /\ cpieces \in 0..MaxPieces
    /\ cfields = <<>>
    /\ cres = NoCommand

DoCutMessage ==
    /\ cpc = "input"
    /\ cfields' = CutMessage(cbuf, cdelim, cpieces)
    /\ cpc' = "cut"
    /\ UNCHANGED <<sleeperVars, allocVars, streamVars, cbuf, cdelim, cpieces, cres>>

DoParse ==
    /\ cpc = "input"
    /\ cres' \in Parse(cbuf)
    /\ cpc' = "parsed"
    /\ UNCHANGED <<sleeperVars, allocVars, streamVars, cbuf, cdelim, cpieces, cfields>>

---------------------------------------------------------------------------
(* The Reader's read (sleeper.cpp 95-104) over the bytes of the socket.    *)
(* A frame on the wire is its payload followed by NUL.                     *)

NUL == "NUL"

\* the payloads the peer sends
Payloads == {<<"a">>, <<"b", "c">>}

StreamOff ==
    /\ rpc = "off"
    /\ rx = <<>>
    /\ rbuf = <<>>
    /\ sent = <<>>
    /\ handled = <<>>

StreamInit ==
    /\ rpc = "read"
    /\ rx = <<>>
    /\ rbuf = <<>>
    /\ sent = <<>>
    /\ handled = <<>>

\* index of the first NUL of a text that holds one
FirstNul(str) ==
    CHOOSE i \in 1..Len(str) : str[i] = NUL /\ \A j \in 1..(i - 1) : str[j] # NUL

HasNul(str) == \E i \in 1..Len(str) : str[i] = NUL

Min(a, b) == IF a <= b THEN a ELSE b

\* the peer sends one more frame
PeerSend ==
    /\ rpc \in {"read", "have"}
    /\ Len(sent) < MaxSent
    /\ \E payload \in Payloads :
          /\ rx' = rx \o payload \o <<NUL>>
          /\ sent' = Append(sent, payload \o <<NUL>>)
    /\ UNCHANGED <<sleeperVars, allocVars, codecVars, rpc, rbuf, handled>>

\* async_read_until reads some of the bytes that have arrived into the
\* dynamic buffer (at most up to its maximum size); it completes once the
\* buffer holds the delimiter
ReadSome ==
    /\ rpc = "read"
    /\ \E k \in 1..Min(Len(rx), MaxBufferSize - Len(rbuf)) :
          /\ rbuf' = rbuf \o SubSeq(rx, 1, k)
          /\ rx' = SubSeq(rx, k + 1, Len(rx))
          /\ rpc' = IF HasNul(rbuf') THEN "have" ELSE "read"
    /\ UNCHANGED <<sleeperVars, allocVars, codecVars, sent, handled>>

\* n is the length up to and including the delimiter; msg(buffer.data(), n)
\* is dispatched and the iteration ends.  The next iteration declares a new
\* `std::string buffer;` (line 97): whatever followed the delimiter goes with
\* the old one.
StreamDispatch ==
    /\ rpc = "have"
    /\ LET n == FirstNul(rbuf) IN
          handled' = Append(handled, SubSeq(rbuf, 1, n))
    /\ rbuf' = <<>>
    /\ rpc' = "read"
    /\ UNCHANGED <<sleeperVars, allocVars, codecVars, rx, sent>>

\* the peer has closed after all its bytes were read: the pending read fails
StreamReadFail ==
    /\ rpc = "read"
    /\ rx = <<>>
    /\ rpc' = "failed"
    /\ UNCHANGED <<sleeperVars, allocVars, codecVars, rx, rbuf, sent, handled>>

---------------------------------------------------------------------------
(* Specifications *)

Stop(t) ==
    \/ StopCheck(t)
    \/ StopSet(t)
    \/ StopEffects(t)

\* the steps the program itself takes
ProgramStep ==
    \/ StartRegister
    \/ StartJoin
    \/ \E t \in StopCallers : Stop(t)
    \/ ReaderDispatch
    \/ WriterTop
    \/ WriterCheck
    \/ WriterArm
    \/ WriterPop
    \/ DeliverCancelOne

\* what a socket closed by Stop does to the operations pending on it
SocketStep ==
    \/ ReadAborted
    \/ WriteAborted

\* the peer, the Room's fan-out and the violation detector
EnvStep ==
    \/ ReadComplete
    \/ ReadFail
    \/ WriteComplete
    \/ WriteFail
    \/ DeliverPush
    \/ OnViolation

Next == ProgramStep \/ SocketStep \/ EnvStep

NextAlloc == \E c \in Callers : IdCall(c) \/ IdFetchAdd(c) \/ IdReturn(c)

NextCodec == DoCutMessage \/ DoParse

NextInbound == PeerSend \/ ReadSome \/ StreamDispatch \/ StreamReadFail

Init == serial = FALSE /\ InitCommon /\ AllocInit /\ CodecOff /\ StreamOff
InitSerial == serial = TRUE /\ InitCommon /\ AllocInit /\ CodecOff /\ StreamOff
InitCodec == serial = FALSE /\ InitCommon /\ AllocInit /\ CodecInit /\ StreamOff
InitInbound == serial = FALSE /\ InitCommon /\ AllocInit /\ CodecOff /\ StreamInit

\* a pool of workers runs the executor
Spec == Init /\ [][Next]_vars

\* one thread runs the executor
SpecSerial == InitSerial /\ [][Next]_vars

\* threads constructing actors call MakeSleeperId
SpecAlloc == Init /\ [][NextAlloc]_vars

\* CutMessage or Parse applied to one text
SpecCodec == InitCodec /\ [][NextCodec]_vars

\* the Reader's reads over the bytes the peer sends
SpecInbound == InitInbound /\ [][NextInbound]_vars

---------------------------------------------------------------------------
(* Properties *)

\* the Stop() call of task t has returned
StopReturned(t) ==
    CASE t = "violation" -> count.violation > 0 /\ pc[t] = "idle"
      [] t = "start" -> joinOk = "refused" /\ pc[t] = "done"
      [] t = "reader" -> pc[t] = "done"
      [] OTHER -> FALSE
\* (the Writer also ends without calling Stop(), by its loop test)
SomeStopReturned == \E t \in StopCallers : StopReturned(t)

\* C1: Stop() is idempotent.  Over any sequence of Stop() calls (one executor
\* thread: the calls follow one another), Room.Leave, the socket close and
\* OnConnectionClose each run at most once, and exactly once as soon as one
\* call has returned; m_is_stoped only ever goes from false to true.
C1_StopIdempotent ==
    /\ [](/\ count.leave <= 1
          /\ count.close <= 1
          /\ count.trafficClose <= 1
          /\ SomeStopReturned =>
                count.leave = 1 /\ count.close = 1 /\ count.trafficClose = 1)
    /\ [][m_is_stoped => m_is_stoped']_vars

\* the Stop() calls of the Reader and of the violation callback have both
\* returned, the Writer has ended, and the teardown ran once
C1_Witness ==
    /\ StopReturned("reader")
    /\ pc["writer"] = "done"
    /\ StopReturned("violation")
    /\ count.leave = 1
    /\ count.close = 1
    /\ count.trafficClose = 1

\* C2: concurrent Stop() calls collapse to one effective stop.  No two
\* callers are past the test of m_is_stoped at once, and Room.Leave, the
\* socket close, the timer cancel and OnConnectionClose run at most once.
C2_SingleEffectiveStop ==
    /\ Cardinality({t \in StopCallers : pc[t] \in {"stop_set", "stop_effects"}}) <= 1
    /\ count.leave <= 1
    /\ count.close <= 1
    /\ count.cancel <= 1
    /\ count.trafficClose <= 1

\* C3: outbound delivery is strict FIFO.  The frames written to the socket,
\* followed by the frames still queued (less the front frame once it is
\* written and waits for its pop), are the frames handed to Deliver, in the
\* order of the Deliver calls: nothing reordered, batched, dropped or doubled.
C3_OutboundFifo ==
    LET queued == IF pc["writer"] = "pop" THEN Tail(m_write_msgs) ELSE m_write_msgs
    IN  written \o queued = delivered

\* two frames were handed to Deliver and both are written
C3_Witness ==
    /\ Len(delivered) >= 2
    /\ Len(written) >= 2
    /\ written[1] = delivered[1]
    /\ written[2] = delivered[2]

\* C4: a wake-up on enqueue is never lost.  While the socket is open the
\* outbound loop is not suspended in its idle wait over a non-empty queue,
\* unless the Deliver that filled the queue is still about to cancel the wait.
C4_NoLostWake ==
    (pc["writer"] = "wait" /\ m_write_msgs # <<>> /\ sockOpen)
        => pc["deliver"] = "cancel_one"

\* the step is one iteration of the inbound loop
DispatchStep == dispatched' = dispatched + 1

Relayed(l) == \E i \in 1..Len(l.calls) : l.calls[i].op = "Deliver"

SleepRejected(l) ==
    /\ ParseCommand(l.raw).type = "sleep"
    /\ \E i \in 1..Len(l.calls) : l.calls[i].op = "Sleep" /\ ~l.calls[i].ok

\* C5: a rejected Sleep is not relayed.  An iteration of the inbound loop
\* whose Sleep{bed} the Room rejects makes no Room.Deliver call and leaves
\* m_bed_id as it was.
C5_RejectedSleepNotRelayed ==
    [][(DispatchStep /\ SleepRejected(last'))
          => (~Relayed(last') /\ m_bed_id' = m_bed_id)]_vars

\* the Room rejected bed 7 for a connection sleeping in bed 5
C5_Witness ==
    /\ last.raw = "sleep$7"
    /\ SleepRejected(last)
    /\ ~Relayed(last)
    /\ m_bed_id = 5

\* C6: a VoteAgree (VoteRefuse) frame makes exactly one Room call,
\* Agree(m_id) (Refuse(m_id)), and is not relayed.
C6_VotesNotRelayed ==
    /\ ParseCommand(last.raw).type = "agree"
          => last.calls = <<[op |-> "Agree", id |-> m_id, n |-> 0, raw |-> "", ok |-> TRUE]>>
    /\ ParseCommand(last.raw).type = "refuse"
          => last.calls = <<[op |-> "Refuse", id |-> m_id, n |-> 0, raw |-> "", ok |-> TRUE]>>

\* the second frame of the connection was a VoteAgree
C6_Witness ==
    /\ dispatched >= 2
    /\ last.raw = "agree$"
    /\ Len(last.calls) = 1
    /\ last.calls[1].op = "Agree"

\* C7: the snapshot is, in order, the id-announcement, the name last sent,
\* the sex/type last sent and then, while the Room has granted no bed, the
\* position last sent (no bed entry); once the Room has accepted a Sleep{b},
\* the bed entry of the bed b it accepted last, in place of the position.
C7_SnapshotPosThenBed ==
    MakeSelfInfo =
        <<PackCommandWithId(m_id, CmdSleeper(m_id)),
          PackCommandWithId(m_id, CmdName(hist.name)),
          PackCommandWithId(m_id, CmdType(hist.sex)),
          IF hist.bed = NoBed
              THEN PackCommandWithId(m_id, CmdPos(hist.pos))
              ELSE PackCommandWithId(m_id, CmdSleep(hist.bed))>>

\* name$Zed, pos$1,1 and an accepted sleep$5 were processed
C7_Witness ==
    /\ hist = [name |-> "Zed", sex |-> 0, pos |-> <<1, 1>>, bed |-> 5]
    /\ dispatched = 3
    /\ MakeSelfInfo[4] = PackCommandWithId(m_id, CmdSleep(5))

\* C8: m_bed_id is -1 whenever the connection is not sleeping: while it is a
\* member of the Room and occupies no bed there (after a Getup, say), m_bed_id
\* is -1 and the snapshot ends with the position entry.
C8_BedIdFollowsOccupancy ==
    (room.member /\ room.bed = NoBed)
        => (m_bed_id = NoBed /\ MakeSelfInfo[4].cmd.type = "pos")

LoopsExited == pc["reader"] = "done" /\ pc["writer"] = "done"

\* C9: after Stop() on a started actor both loops exit.  Once a Stop() has
\* run on an admitted actor, either both loops have exited or the program or
\* the closed socket still has a step to take (no loop is left suspended with
\* nothing to resume it).
C9_LoopsExitAfterStop ==
    (joinOk = "admitted" /\ count.close > 0)
        => (LoopsExited \/ ENABLED (ProgramStep \/ SocketStep))

\* C10: a terminated connection stops receiving and sending.  Once a Stop()
\* has run, no inbound frame is dispatched (no Room call for a frame, no
\* change of the actor's fields) and no frame is written to the socket.
C10_QuietAfterStop ==
    [][count.trafficClose > 0
          => /\ dispatched' = dispatched
             /\ last' = last
             /\ room'.bed = room.bed
             /\ actorVars' = actorVars
             /\ written' = written]_vars

\* C11: a failed admission stops the actor and starts no loop.  When
\* Room.Join answers false, neither loop is ever started, and once Start()
\* has returned the actor is stopped; a loop that was started belongs to an
\* actor whose Join answered true.
C11_RefusedNeverStartsLoops ==
    /\ joinOk = "refused" =>
          /\ pc["reader"] = "off"
          /\ pc["writer"] = "off"
          /\ pc["start"] = "done" => m_is_stoped
    /\ (pc["reader"] # "off" \/ pc["writer"] # "off") => joinOk = "admitted"

\* Start() has returned from a refused admission: stopped, no loop started
C11_Witness ==
    /\ joinOk = "refused"
    /\ pc["start"] = "done"
    /\ m_is_stoped
    /\ ~sockOpen
    /\ pc["reader"] = "off"
    /\ pc["writer"] = "off"

\* the callers whose post-increment has run
IdHolders == {c \in Callers : idpc[c] \in {"fetched", "returned"}}

\* C12: MakeSleeperId gives concurrent callers pairwise distinct ids.  The
\* first id issued is 10000, no id is issued twice, and the id of a call is
\* greater than every id returned by a call that completed before it began.
C12_IdsDistinctIncreasing ==
    /\ \A c, d \in IdHolders : c # d => idgot[c] # idgot[d]
    /\ \A c \in IdHolders :
          /\ idgot[c] >= FirstSleeperId
          /\ \A v \in idbefore[c] : idgot[c] > v
    /\ IdHolders # {} => \E c \in IdHolders : idgot[c] = FirstSleeperId

\* three calls have returned 10000, 10001 and 10002; the call that got 10002
\* began after 10000 was returned and overlapped the call that got 10001
C12_Witness ==
    /\ {FirstSleeperId, FirstSleeperId + 1, FirstSleeperId + 2} \subseteq IdsReturned
    /\ \E c \in Callers :
          idgot[c] = FirstSleeperId + 2 /\ idbefore[c] = {FirstSleeperId}

\* the positions of the delimiter in a text, and the position of its k-th
DelimPositions(str, ch) == {i \in 1..Len(str) : str[i] = ch}
KthDelim(str, ch, k) ==
    CHOOSE i \in DelimPositions(str, ch) :
        Cardinality({j \in DelimPositions(str, ch) : j <= i}) = k
\* the text after the last delimiter (the whole text if it has none)
AfterLastDelim(str, ch) ==
    LET last_i == IF DelimPositions(str, ch) = {} THEN 0
                  ELSE KthDelim(str, ch, Cardinality(DelimPositions(str, ch)))
    IN  SubSeq(str, last_i + 1, Len(str))

\* C13: the bounded split.  For pieces >= 2, CutMessage returns at most
\* `pieces` fields; when it returns exactly `pieces`, the last one is the
\* input from right after the (pieces-1)-th delimiter to the end, further
\* delimiters included; when the input has fewer than pieces-1 delimiters,
\* fewer than `pieces` fields are returned and the last one is the text
\* that remains after the last delimiter.
C13_BoundedSplit ==
    (cpc = "cut" /\ cpieces >= 2) =>
        LET delims == Cardinality(DelimPositions(cbuf, cdelim)) IN
        /\ Len(cfields) >= 1
        /\ Len(cfields) <= cpieces
        /\ Len(cfields) = cpieces =>
              /\ delims >= cpieces - 1
              /\ cfields[cpieces] =
                    SubSeq(cbuf, KthDelim(cbuf, cdelim, cpieces - 1) + 1, Len(cbuf))
        /\ delims < cpieces - 1 =>
              /\ Len(cfields) = delims + 1
              /\ Len(cfields) < cpieces
              /\ cfields[Len(cfields)] = AfterLastDelim(cbuf, cdelim)

\* "name$a$" cut at '$' into 2 pieces: "name" and "a$"
C13_Witness ==
    /\ cpc = "cut"
    /\ cpieces = 2
    /\ cdelim = "$"
    /\ cbuf = Name_s \o <<"$", "a", "$">>
    /\ cfields = <<Name_s, <<"a", "$">>>>

\* the tokens of GetCommandTypeFromString's table
TableTokens == {Name_s, Type_s, Sleep_s, Getup_s, Chat_s, Move_s, Pos_s}

\* the text starts with the word followed by '$'
StartsWithToken(str, word) ==
    /\ Len(str) > Len(word)
    /\ SubSeq(str, 1, Len(word)) = word
    /\ str[Len(word) + 1] = "$"

\* the text after the first '$' of a text that has one
Payload(str) == SubSeq(str, KthDelim(str, "$", 1) + 1, Len(str))

\* C14: Parse and the token table.  A frame without '$' parses to unknown,
\* whatever its token; a frame that starts with a token of the table
\* followed by '$' parses to that token's variant, also with an empty
\* payload; the payload of name and chat is all that follows the first '$',
\* further '$' included.
C14_ParseTokenTable ==
    cpc = "parsed" =>
        /\ DelimPositions(cbuf, "$") = {} => cres.type = "unknown"
        /\ \A word \in TableTokens :
              StartsWithToken(cbuf, word)
                  => cres.type = GetCommandTypeFromString(word)
        /\ cres.type \in {"name", "chat"} => cres.strParam = Payload(cbuf)

\* C17: a move or pos frame with fewer than two comma fields has a defined
\* outcome: Parse reads no element past the end of the vector of fields and
\* returns a malformed-frame result (unknown or an error).
C17_ShortPosDefined ==
    (/\ cpc = "parsed"
     /\ StartsWithToken(cbuf, Move_s) \/ StartsWithToken(cbuf, Pos_s)
     /\ DelimPositions(Payload(cbuf), ",") = {})
        => (~cres.oob /\ cres.type \in {"unknown", "error"})

\* the Deliver calls among the Room calls of an iteration
DeliverCalls(l) == {i \in 1..Len(l.calls) : l.calls[i].op = "Deliver"}

\* C15: the default relay.  An inbound frame that parses to anything but a
\* Sleep the Room rejects, a VoteAgree or a VoteRefuse is handed to
\* Room.Deliver(m_id, raw) exactly once, with the raw frame as it was read,
\* as the last Room call of its iteration (after its own Room call, if any).
C15_DefaultRelay ==
    (/\ dispatched > 0
     /\ ~last.threw
     /\ ParseCommand(last.raw).type \notin {"agree", "refuse"}
     /\ ~SleepRejected(last))
        => /\ DeliverCalls(last) = {Len(last.calls)}
           /\ last.calls[Len(last.calls)] =
                 [op |-> "Deliver", id |-> m_id, n |-> 0, raw |-> last.raw, ok |-> TRUE]

\* a VoteKickStart frame: the Room's VoteKickStart, then the relay of the frame
C15_Witness ==
    /\ last.raw = "kick$10001"
    /\ Len(last.calls) = 2
    /\ last.calls[1].op = "VoteKickStart"
    /\ last.calls[2].op = "Deliver"
    /\ last.calls[2].raw = "kick$10001"

\* C16: an error in the decoding of a frame is not fatal.  The iteration of
\* such a frame relays nothing, leaves the actor's fields and m_is_stoped as
\* they are and goes back to the read; no iteration of the loop calls
\* Stop(): the Reader only gets to its Stop() from a failed read.
C16_FrameErrorNotFatal ==
    /\ [][DispatchStep =>
            /\ pc'["reader"] = "read"
            /\ m_is_stoped' = m_is_stoped
            /\ count' = count
            /\ last'.threw => (last'.calls = <<>> /\ actorVars' = actorVars)]_vars
    /\ [][(pc["reader"] # "stop" /\ pc'["reader"] = "stop")
            => pc["reader"] = "read"]_vars

\* after a frame whose decoding failed the next read has completed on the
\* running actor
C16_Witness ==
    /\ last.threw
    /\ last.calls = <<>>
    /\ pc["reader"] = "ready"
    /\ ~m_is_stoped
    /\ sockOpen

\* C18: the violation observer.  Start() registers one observer under
\* ("ip", ip), before it asks the Room for admission.  An invocation of the
\* callback puts the ip on the blacklist and calls Stop(); on an actor that
\* is already stopped (its admission refused, say) that Stop() returns
\* without any effect, and in every case the actor is stopped once the
\* callback's Stop() has returned.
C18_ViolationObserver ==
    /\ [](/\ count.addObserver <= 1
          /\ joinOk # "none" => (count.addObserver = 1 /\ observer)
          /\ count.violation > 0 => blacklisted
          /\ StopReturned("violation") =>
                (m_is_stoped /\ ~sockOpen /\ ~room.member /\ count.leave = 1))
    /\ [][count'.violation = count.violation + 1
            => (observer /\ blacklisted' /\ pc'["violation"] = "stop")]_vars
    /\ [][(pc["violation"] = "stop" /\ m_is_stoped)
            => /\ pc'["violation"] = "idle"
               /\ count' = count
               /\ sockOpen' = sockOpen
               /\ room' = room]_vars

\* the callback ran on an actor whose admission was refused and whose
\* Start() had stopped it: the ip is on the blacklist, the teardown ran once
C18_Witness ==
    /\ joinOk = "refused"
    /\ StopReturned("start")
    /\ StopReturned("violation")
    /\ blacklisted
    /\ count.leave = 1
    /\ count.close = 1

\* C19: Room.Leave(m_id) is only called for an actor whose Room.Join
\* answered true; an actor whose admission failed issues no Leave.
C19_LeaveOnlyAfterAdmission ==
    count.leave > 0 => joinOk = "admitted"

IsPrefix(a, b) == Len(a) <= Len(b) /\ SubSeq(b, 1, Len(a)) = a

\* C20: no inbound frame is lost.  The messages dispatched are the frames
\* the peer sent, each once and in the order of arrival; when every byte
\* sent has been read and the loop holds no partial frame, every frame sent
\* has been dispatched (also when one read took several frames, or a frame
\* and the start of the next).
C20_NoFrameLost ==
    /\ IsPrefix(handled, sent)
    /\ (rx = <<>> /\ rbuf = <<>> /\ rpc \in {"read", "failed"}) => handled = sent

=============================================================================
